---- MODULE Spec2Model ----
(***************************************************************************)
(* Model of the simulated SailPoint provisioning service                   *)
(* (services/sailpointService.js): the in-memory identity/account          *)
(* directory, the task ledger and the operations that mutate them.         *)
(*                                                                         *)
(* Every simulate* function starts with `await getAccessToken()` and then  *)
(* runs to its return without another suspension point, so the body of     *)
(* each operation is one atomic step taken at some reading of the clock.   *)
(*                                                                         *)
(* Ids are strings built from a prefix and a number in the source          *)
(* (`simulated-accountId-${n}`); here an id is the pair <<prefix, n>>.     *)
(* JavaScript objects are shared by reference: simulatedIdentitiesStore    *)
(* maps keys to references into the heap `objs`, and keeps its keys in     *)
(* insertion order, which is the order `for ... in` visits them.           *)
(***************************************************************************)
EXTENDS Integers, Sequences, FiniteSets, TLC

\* ---------------------------------------------------------------- bounds
MaxCreates == 2     \* createAccount calls that are made
MaxTasks == 2       \* successful task-creating calls that are made
MaxCalls == 5       \* getAccessToken calls that are made

\* ------------------------------------------------------------- constants
Undefined == <<"undefined", 0>>
null == <<"null", 0>>
NoMail == <<"mail", 0>>
Emails == {<<"mail", 1>>, <<"mail", 2>>}
JaneMail == <<"mail", 11>>
JohnMail == <<"mail", 12>>
LifecycleStates == {"active", "terminated"}
UnknownId == <<"unknown-id", 0>>

VARIABLES
  now,                        \* the latest reading of Date.now()
  accountCounter,             \* let accountCounter
  identityCounter,            \* let identityCounter
  simulatedAccountsStore,     \* task id -> account task record
  simulatedIdentitiesStore,   \* sequence of [key, ref], in insertion order
  objs,                       \* heap: ref -> identity or lifecycle-task object
  issued,                     \* history: one entry per task-creating call
  accessToken,                \* let accessToken
  tokenCalls,                 \* the getAccessToken calls made, in order
  flows                       \* the /onboard and /offboard requests received

\* the state of the simulated service
service == <<now, accountCounter, identityCounter, simulatedAccountsStore,
             simulatedIdentitiesStore, objs, issued, accessToken, tokenCalls>>

vars == <<now, accountCounter, identityCounter, simulatedAccountsStore,
          simulatedIdentitiesStore, objs, issued, accessToken, tokenCalls, flows>>

\* --------------------------------------------------------------- objects
Account(id, status) == [id |-> id, status |-> status]

\* An identity object; `status` and `identityId` are properties it does not
\* have (undefined when read).  Its access list is empty unless said.
Identity(id, email, sourceAccountId, accounts) ==
  [kind |-> "identity", id |-> id, email |-> email, lifecycleState |-> "active",
   sourceAccountId |-> sourceAccountId, accounts |-> accounts, access |-> <<>>,
   status |-> "undefined", identityId |-> Undefined]

\* The record simulateSetLifecycleState stores under the task id; it has no
\* id, email, accounts, access or lifecycleState property when created.
LifecycleTask(identityId) ==
  [kind |-> "task", id |-> Undefined, email |-> NoMail,
   lifecycleState |-> "undefined", sourceAccountId |-> Undefined,
   accounts |-> <<>>, access |-> <<>>, status |-> "QUEUED",
   identityId |-> identityId]

HasAccounts(o) == o.kind = "identity"

\* identity.access is truthy
HasAccess(o) == o.kind = "identity"

\* an access item: {id, type, name, description}
AccessItem(id, type) == [id |-> id, type |-> type]

\* The record stored in simulatedAccountsStore; accountData is present only
\* on the records simulateCreateAccount writes.
AccountTask(accountId, hasAccountData) ==
  [status |-> "QUEUED", accountId |-> accountId, hasAccountData |-> hasAccountData]

ManagerIdentityId == <<"simulated-identityId", 0>>
User1IdentityId == <<"simulated-identityId", 1>>

ManagerIdentity ==
  Identity(ManagerIdentityId, JaneMail, Undefined,
           <<Account(<<"sim-acc-mgr", 0>>, "enabled")>>)

User1Identity ==
  [Identity(User1IdentityId, JohnMail, Undefined,
            <<Account(<<"sim-acc-jd1", 1>>, "enabled"),
              Account(<<"sim-acc-jd2", 2>>, "enabled")>>)
     EXCEPT !.access = <<AccessItem("ap-contractor-base", "ACCESS_PROFILE"),
                         AccessItem("role-developer-tools", "ROLE")>>]

\* --------------------------------------------------------------- lookups
Keys == {simulatedIdentitiesStore[i].key : i \in DOMAIN simulatedIdentitiesStore}

\* simulatedIdentitiesStore[key]: the reference stored under key, 0 if none
StoreRef(key) ==
  IF key \in Keys
  THEN LET i == CHOOSE j \in DOMAIN simulatedIdentitiesStore :
                   simulatedIdentitiesStore[j].key = key
       IN simulatedIdentitiesStore[i].ref
  ELSE 0

\* the object under the i-th key of the store, in `for ... in` order
ObjAt(i) == objs[simulatedIdentitiesStore[i].ref]

\* the first of a set S of store indices that a loop with `return` or `break`
\* stops at, 0 if S is empty
FirstIndex(S) ==
  IF S = {} THEN 0 ELSE CHOOSE i \in S : \A j \in S : i <= j

\* the last of a set S of store indices, which a loop that keeps assigning
\* ends with, 0 if S is empty
LastIndex(S) ==
  IF S = {} THEN 0 ELSE CHOOSE i \in S : \A j \in S : i >= j

RefAt(i) == IF i = 0 THEN 0 ELSE simulatedIdentitiesStore[i].ref

\* findIdentityById: the reference of the object found, 0 for null
findIdentityById(identityId) ==
  IF StoreRef(identityId) # 0 THEN StoreRef(identityId)
  ELSE RefAt(FirstIndex({i \in DOMAIN simulatedIdentitiesStore :
                           ObjAt(i).id = identityId}))

\* ------------------------------------------------------------- responses
\* What a call gives back: {status: http, data} of the simulate* functions,
\* or a thrown exception (a rejected promise).
NoResult == [present |-> FALSE, accountId |-> Undefined, identityId |-> Undefined,
             status |-> "none"]

Response(http) ==
  [http |-> http, threw |-> FALSE, id |-> Undefined, status |-> "none",
   result |-> NoResult, lifecycleState |-> "none", accounts |-> <<>>,
   access |-> <<>>, count |-> 0]

Thrown == [Response(0) EXCEPT !.threw = TRUE]

\* {status: 202, data: {id: taskId, status: 'QUEUED'}}
Accepted(taskId) == [Response(202) EXCEPT !.id = taskId, !.status = "QUEUED"]

EmptyStore == [k \in {} |-> AccountTask(Undefined, FALSE)]

Init ==
  /\ now = 1
  /\ accountCounter = 3
  /\ identityCounter = 2
  /\ simulatedAccountsStore = EmptyStore
  /\ simulatedIdentitiesStore = <<[key |-> ManagerIdentityId, ref |-> 1],
                                  [key |-> User1IdentityId, ref |-> 2]>>
  /\ objs = <<ManagerIdentity, User1Identity>>
  /\ issued = <<>>
  /\ accessToken = null
  /\ tokenCalls = <<>>
  /\ flows = <<>>

\* ------------------------------------------------------------ operations
\* store[key] = value on a plain object used as a map
Put(store, key, value) ==
  [k \in DOMAIN store \cup {key} |-> IF k = key THEN value ELSE store[k]]

\* Date.now() never goes back: a reading is the one before it (the same
\* millisecond) or a later one.  Task ids depend on the clock only through
\* which readings are equal, so one later value stands for all of them.
Readings == {now, now + 1}

\* NewIdentity with the account left out of the accounts list
NewIdentityWithoutAccount(identityId, accountId, mail) ==
  Identity(identityId, mail, accountId, <<>>)

\* the object literal simulateCreateAccount builds
NewIdentity(identityId, accountId, mail) ==
  Identity(identityId, mail, accountId, <<Account(accountId, "enabled")>>)

\* one entry of the call history: the call, the task id it returned, its
\* arguments (for createAccount the ids it made), and the status queries made
\* on that task id since it returned
Issued(op, taskId, accountId, identityId, newLifecycleState) ==
  [op |-> op, taskId |-> taskId, accountId |-> accountId,
   identityId |-> identityId, newLifecycleState |-> newLifecycleState, n |-> 0]

\* `account-creation-task-${Date.now()}`
CreateTaskId(t) == <<"account-creation-task", t>>

CreateAccountResponse(t) == Accepted(CreateTaskId(t))

\* NewAccountId without the counter
NewAccountIdOfFirst == <<"simulated-accountId", 3>>

\* `simulated-accountId-${accountCounter++}`: the id, before the increment
NewAccountId == <<"simulated-accountId", accountCounter>>

simulateCreateAccount(mail, t) ==
  LET taskId == CreateTaskId(t)
      accountId == NewAccountId
      identityId == <<"simulated-identityId", identityCounter>>
      ref == Len(objs) + 1
  IN /\ accountCounter - 3 < MaxCreates
     /\ Len(issued) < MaxTasks
     /\ now' = t
     /\ accountCounter' = accountCounter + 1
     /\ simulatedAccountsStore' =
          Put(simulatedAccountsStore, taskId, AccountTask(accountId, TRUE))
     /\ identityCounter' = identityCounter + 1
     /\ objs' = Append(objs, NewIdentity(identityId, accountId, mail))
     \* both keys are new (the counters never repeat) and name one object
     /\ simulatedIdentitiesStore' =
          simulatedIdentitiesStore \o <<[key |-> accountId, ref |-> ref],
                                        [key |-> identityId, ref |-> ref]>>
     /\ issued' = Append(issued,
                         Issued("createAccount", taskId, accountId, identityId, ""))
     /\ UNCHANGED <<accessToken, tokenCalls>>

\* the if / else-if of simulateGetTaskStatus
AdvanceStatus(status) ==
  IF status = "QUEUED" THEN "PROCESSING"
  ELSE IF status = "PROCESSING" THEN "COMPLETED"
  ELSE status

\* the result object of an account task: identityId is the id of the object
\* findIdentityById(accountId) finds, undefined if it finds none
AccountResult(accountId) ==
  [present |-> TRUE, accountId |-> accountId,
   identityId |-> IF findIdentityById(accountId) = 0 THEN Undefined
                  ELSE objs[findIdentityById(accountId)].id,
   status |-> "success"]

GenericResult ==
  [present |-> TRUE, accountId |-> Undefined, identityId |-> Undefined,
   status |-> "success"]

Snapshot(taskId, status, result) ==
  [Response(200) EXCEPT !.id = taskId, !.status = status, !.result = result]

\* taskDetails.accountData.sourceId is read when taskDetails.accountId is
\* truthy: a TypeError when the record has no accountData
ReadsMissingAccountData(taskDetails) ==
  taskDetails.accountId # Undefined /\ ~taskDetails.hasAccountData

\* what simulateGetTaskStatus(taskId) gives back when called in this state;
\* taskDetails = simulatedAccountsStore[taskId] || simulatedIdentitiesStore[taskId]
GetTaskStatusResponse(taskId) ==
  IF taskId \in DOMAIN simulatedAccountsStore
  THEN LET taskDetails == simulatedAccountsStore[taskId]
       IN IF ReadsMissingAccountData(taskDetails) THEN Thrown
          ELSE Snapshot(taskId, AdvanceStatus(taskDetails.status),
                        IF taskDetails.accountId # Undefined
                        THEN AccountResult(taskDetails.accountId)
                        ELSE GenericResult)
  ELSE IF StoreRef(taskId) # 0
  \* neither an identity nor a lifecycle task has an accountId property
  THEN Snapshot(taskId, AdvanceStatus(objs[StoreRef(taskId)].status), GenericResult)
  ELSE Response(404)

\* every history entry of this task id has seen one more status query; the
\* count tells no query, one query and more than one apart
CountQuery(taskId) ==
  [i \in DOMAIN issued |->
     IF issued[i].taskId = taskId /\ issued[i].n < 2
     THEN [issued[i] EXCEPT !.n = @ + 1] ELSE issued[i]]

\* simulateGetTaskStatus advancing every account Task that has the status
\* of the one asked about
simulateGetTaskStatusOfAll(taskId) ==
  /\ issued' = CountQuery(taskId)
  /\ UNCHANGED <<now, accountCounter, identityCounter, simulatedIdentitiesStore,
                 accessToken, tokenCalls>>
  /\ IF taskId \in DOMAIN simulatedAccountsStore
     THEN /\ simulatedAccountsStore' =
               [id \in DOMAIN simulatedAccountsStore |->
                  IF simulatedAccountsStore[id].status = simulatedAccountsStore[taskId].status
                  THEN [simulatedAccountsStore[id] EXCEPT !.status = AdvanceStatus(@)]
                  ELSE simulatedAccountsStore[id]]
          /\ UNCHANGED objs
     ELSE IF StoreRef(taskId) # 0
     THEN /\ objs' = [objs EXCEPT ![StoreRef(taskId)].status = AdvanceStatus(@)]
          /\ UNCHANGED simulatedAccountsStore
     ELSE UNCHANGED <<simulatedAccountsStore, objs>>

\* the status is written before the result is built, so also when the call
\* then throws
simulateGetTaskStatus(taskId) ==
  /\ issued' = CountQuery(taskId)
  /\ UNCHANGED <<now, accountCounter, identityCounter, simulatedIdentitiesStore,
                 accessToken, tokenCalls>>
  /\ IF taskId \in DOMAIN simulatedAccountsStore
     THEN /\ simulatedAccountsStore' =
               [simulatedAccountsStore EXCEPT ![taskId].status = AdvanceStatus(@)]
          /\ UNCHANGED objs
     ELSE IF StoreRef(taskId) # 0
     THEN /\ objs' = [objs EXCEPT ![StoreRef(taskId)].status = AdvanceStatus(@)]
          /\ UNCHANGED simulatedAccountsStore
     ELSE UNCHANGED <<simulatedAccountsStore, objs>>

\* every account id some object of the store lists
AccountIds ==
  UNION {{objs[r].accounts[j].id : j \in DOMAIN objs[r].accounts} : r \in DOMAIN objs}

\* accounts.find(acc => acc.id === accountId) / findIndex: 0 if none
AccountIndex(accounts, accountId) ==
  LET S == {j \in DOMAIN accounts : accounts[j].id = accountId}
  IN IF S = {} THEN 0 ELSE CHOOSE j \in S : \A k \in S : j <= k

\* DisableIn writing the status to a copy of the account
DisableInCopy(accounts, accountId) == accounts

\* targetAccount.status = 'disabled'
DisableIn(accounts, accountId) ==
  [accounts EXCEPT ![AccountIndex(accounts, accountId)].status = "disabled"]

\* IdentityKeyForAccount stopping at the first object that has accounts
IdentityKeyOfFirstOwner(accountId) ==
  FirstIndex({i \in DOMAIN simulatedIdentitiesStore : HasAccounts(ObjAt(i))})

\* the store index of the first identity whose accounts list has accountId
\* (identityKeyForAccount), 0 if the loop ends without one
IdentityKeyForAccount(accountId) ==
  FirstIndex({i \in DOMAIN simulatedIdentitiesStore :
                /\ HasAccounts(ObjAt(i))
                /\ AccountIndex(ObjAt(i).accounts, accountId) # 0})

\* `disable-account-task-${Date.now()}`
DisableTaskId(t) == <<"disable-account-task", t>>

DisableAccountResponse(accountId, t) ==
  IF IdentityKeyForAccount(accountId) = 0 THEN Response(404)
  ELSE Accepted(DisableTaskId(t))

simulateDisableAccount(accountId, t) ==
  LET ref == RefAt(IdentityKeyForAccount(accountId))
  IN /\ UNCHANGED <<accountCounter, identityCounter, simulatedIdentitiesStore,
                    accessToken, tokenCalls>>
     /\ IF ref = 0
        THEN /\ t = now
             /\ UNCHANGED <<now, simulatedAccountsStore, objs, issued>>
        ELSE /\ Len(issued) < MaxTasks
             /\ now' = t
             /\ objs' = [objs EXCEPT ![ref].accounts = DisableIn(@, accountId)]
             /\ simulatedAccountsStore' =
                  Put(simulatedAccountsStore, DisableTaskId(t),
                      AccountTask(accountId, FALSE))
             /\ issued' = Append(issued,
                  Issued("disableAccount", DisableTaskId(t), accountId, Undefined, ""))

\* Cascade leaving out the first account
CascadeButFirst(o, newLifecycleState) ==
  IF newLifecycleState = "terminated" /\ HasAccounts(o)
  THEN [j \in DOMAIN o.accounts |->
          IF j = 1 THEN o.accounts[j]
          ELSE [o.accounts[j] EXCEPT !.status = "disabled"]]
  ELSE o.accounts

\* Cascade also enabling the accounts when the new state is 'active'
CascadeBothWays(o, newLifecycleState) ==
  IF ~HasAccounts(o) THEN o.accounts
  ELSE IF newLifecycleState = "terminated"
  THEN [j \in DOMAIN o.accounts |-> [o.accounts[j] EXCEPT !.status = "disabled"]]
  ELSE IF newLifecycleState = "active"
  THEN [j \in DOMAIN o.accounts |-> [o.accounts[j] EXCEPT !.status = "enabled"]]
  ELSE o.accounts

\* Cascade stopping after the first account
CascadeFirstOnly(o, newLifecycleState) ==
  IF newLifecycleState = "terminated" /\ HasAccounts(o)
  THEN [j \in DOMAIN o.accounts |->
          IF j = 1 THEN [o.accounts[j] EXCEPT !.status = "disabled"]
          ELSE o.accounts[j]]
  ELSE o.accounts

\* identity.accounts.forEach(acc => acc.status = 'disabled'), done when the
\* new state is 'terminated' and the object has an accounts list
Cascade(o, newLifecycleState) ==
  IF newLifecycleState = "terminated" /\ HasAccounts(o)
  THEN [j \in DOMAIN o.accounts |-> [o.accounts[j] EXCEPT !.status = "disabled"]]
  ELSE o.accounts

\* `set-lcs-task-${Date.now()}`
LifecycleTaskId(t) == <<"set-lcs-task", t>>

SetLifecycleStateResponse(identityId, t) ==
  IF findIdentityById(identityId) = 0 THEN Response(404)
  ELSE Accepted(LifecycleTaskId(t))

\* simulateSetLifecycleState enqueuing its Task before it looks for the
\* identity
simulateSetLifecycleStateUnchecked(identityId, newLifecycleState, t) ==
  LET ref == findIdentityById(identityId)
      taskId == LifecycleTaskId(t)
      updated == IF ref = 0 THEN objs
                 ELSE [objs EXCEPT ![ref].lifecycleState = newLifecycleState,
                                   ![ref].accounts = Cascade(objs[ref], newLifecycleState)]
  IN /\ UNCHANGED <<accountCounter, identityCounter, simulatedAccountsStore,
                    accessToken, tokenCalls>>
     /\ Len(issued) < MaxTasks
     /\ now' = t
     /\ IF taskId \in Keys
        THEN /\ objs' = [updated EXCEPT ![StoreRef(taskId)] = LifecycleTask(identityId)]
             /\ UNCHANGED simulatedIdentitiesStore
        ELSE /\ objs' = Append(updated, LifecycleTask(identityId))
             /\ simulatedIdentitiesStore' =
                  Append(simulatedIdentitiesStore,
                         [key |-> taskId, ref |-> Len(objs) + 1])
     /\ issued' = Append(issued,
          Issued("setLifecycleState", taskId, Undefined, identityId,
                 newLifecycleState))

simulateSetLifecycleState(identityId, newLifecycleState, t) ==
  LET ref == findIdentityById(identityId)
      taskId == LifecycleTaskId(t)
      updated == [objs EXCEPT ![ref].lifecycleState = newLifecycleState,
                              ![ref].accounts = Cascade(objs[ref], newLifecycleState)]
  IN /\ UNCHANGED <<accountCounter, identityCounter, simulatedAccountsStore,
                    accessToken, tokenCalls>>
     /\ IF ref = 0
        THEN /\ t = now
             /\ UNCHANGED <<now, simulatedIdentitiesStore, objs, issued>>
        ELSE /\ Len(issued) < MaxTasks
             /\ now' = t
             \* simulatedIdentitiesStore[taskId] = {...}: a key that exists keeps
             \* its place and gets a new record (the old one had no other key)
             /\ IF taskId \in Keys
                THEN /\ objs' = [updated EXCEPT ![StoreRef(taskId)] =
                                                  LifecycleTask(identityId)]
                     /\ UNCHANGED simulatedIdentitiesStore
                ELSE /\ objs' = Append(updated, LifecycleTask(identityId))
                     /\ simulatedIdentitiesStore' =
                          Append(simulatedIdentitiesStore,
                                 [key |-> taskId, ref |-> Len(objs) + 1])
             /\ issued' = Append(issued,
                  Issued("setLifecycleState", taskId, Undefined, identityId,
                         newLifecycleState))

\* ------------------------------------------------------------------ reads
\* identityToReturn of simulateSearchIdentity as a reference, 0 for null;
\* the query carries one discriminator
SearchRef(by, value) ==
  IF by = "email"
  THEN RefAt(LastIndex({i \in DOMAIN simulatedIdentitiesStore :
                          ObjAt(i).email = value}))
  ELSE IF by = "accountId"
  THEN IF findIdentityById(value) # 0 THEN findIdentityById(value)
       ELSE RefAt(FirstIndex({i \in DOMAIN simulatedIdentitiesStore :
                                ObjAt(i).sourceAccountId = value}))
  ELSE findIdentityById(value)

\* what simulateSearchIdentity gives back: one match or 404 and no match
SearchIdentityResponse(by, value) ==
  LET ref == SearchRef(by, value)
  IN IF ref # 0
     THEN [Response(200)
             EXCEPT !.id = objs[ref].id, !.lifecycleState = objs[ref].lifecycleState,
                    !.accounts = objs[ref].accounts, !.count = 1]
     ELSE Response(404)

\* ListAccountsByIdentityResponse answering 404 when it finds no accounts
ListAccountsOrNotFound(identityId) ==
  LET ref == findIdentityById(identityId)
  IN IF ref # 0 /\ HasAccounts(objs[ref])
     THEN [Response(200) EXCEPT !.accounts = objs[ref].accounts,
                                !.count = Len(objs[ref].accounts)]
     ELSE Response(404)

\* what simulateListAccountsByIdentity gives back
ListAccountsByIdentityResponse(identityId) ==
  LET ref == findIdentityById(identityId)
  IN [Response(200)
        EXCEPT !.accounts = IF ref # 0 /\ HasAccounts(objs[ref])
                            THEN objs[ref].accounts ELSE <<>>,
               !.count = IF ref # 0 /\ HasAccounts(objs[ref])
                         THEN Len(objs[ref].accounts) ELSE 0]

\* what simulateGetUserDetails gives back: data[0] of the search by identityId
GetUserDetailsResponse(identityId) ==
  IF findIdentityById(identityId) # 0
     /\ SearchIdentityResponse("identityId", identityId).http = 200
  THEN SearchIdentityResponse("identityId", identityId)
  ELSE Response(404)

\* what simulateGetUserEntitlements gives back
GetUserEntitlementsResponse(sailpointIdentityId) ==
  LET ref == findIdentityById(sailpointIdentityId)
  IN IF ref # 0 /\ HasAccess(objs[ref])
     THEN [Response(200) EXCEPT !.access = objs[ref].access,
                                !.count = Len(objs[ref].access)]
     ELSE IF ref # 0 THEN Response(200)
     ELSE Response(404)

\* ------------------------------------------------------------ the token
\* Every operation of the service starts with await getAccessToken(); the
\* operations above are taken from the return of that call on, and the
\* token is no part of what they compute.  A call that finds no token
\* starts a timer of 100 ms and returns when the timer fires.

\* a getAccessToken call: the token it returned, null while it waits
TokenCall(token) == [returned |-> token # null, token |-> token]

\* `simulated-jwt-token-${Date.now()}`
NewToken(t) == <<"simulated-jwt-token", t>>

\* accessToken = `simulated-jwt-token-${Date.now()}` in the timer
TokenAfterTimer(t) == NewToken(t)

\* the calls that wait for their timer
Waiting == {c \in DOMAIN tokenCalls : ~tokenCalls[c].returned}

\* getAccessToken(): if (accessToken) return accessToken, else the promise
\* of the timer
getAccessToken ==
  /\ Len(tokenCalls) < MaxCalls
  /\ tokenCalls' = Append(tokenCalls, TokenCall(accessToken))
  /\ UNCHANGED <<now, accountCounter, identityCounter, simulatedAccountsStore,
                 simulatedIdentitiesStore, objs, issued, accessToken, flows>>

\* the callback of setTimeout(..., 100) of the call that has waited longest
\* (equal delays fire in the order they were set): the token is written
\* and the call returns it
TokenTimer(t) ==
  /\ Waiting # {}
  /\ LET c == CHOOSE w \in Waiting : \A x \in Waiting : w <= x
     IN /\ now' = t
        /\ accessToken' = TokenAfterTimer(t)
        /\ tokenCalls' = [tokenCalls EXCEPT ![c] = TokenCall(TokenAfterTimer(t))]
  /\ UNCHANGED <<accountCounter, identityCounter, simulatedAccountsStore,
                 simulatedIdentitiesStore, objs, issued, flows>>

\* calls of getAccessToken, some of them before the first has returned
NextToken ==
  \/ getAccessToken
  \/ \E t \in Readings : TokenTimer(t)

SpecToken == Init /\ [][NextToken]_vars

\* ----------------------------------------------------------------- inputs
\* The ids the calls are made with: every key of either store and an id that
\* is in neither.  Of the two seeded Identities the calls that change the
\* directory aim at User1 (two accounts, of which they disable the second);
\* the manager, with one account, has no case of its own.
TaskIdArgs == DOMAIN simulatedAccountsStore \cup Keys \cup {UnknownId}
IdentityIdArgs == (Keys \ {ManagerIdentityId}) \cup {UnknownId}
AccountIdArgs ==
  (AccountIds \ {<<"sim-acc-mgr", 0>>, <<"sim-acc-jd1", 1>>}) \cup {UnknownId}
EmailArgs == Emails \cup {JaneMail, JohnMail}

\* the calls made on the service directly; no request is in progress
Next ==
  \/ /\ \E mail \in Emails, t \in Readings : simulateCreateAccount(mail, t)
     /\ UNCHANGED flows
  \/ /\ \E taskId \in TaskIdArgs : simulateGetTaskStatus(taskId)
     /\ UNCHANGED flows
  \/ /\ \E accountId \in AccountIdArgs, t \in Readings :
          simulateDisableAccount(accountId, t)
     /\ UNCHANGED flows
  \/ /\ \E identityId \in IdentityIdArgs, s \in LifecycleStates, t \in Readings :
          simulateSetLifecycleState(identityId, s, t)
     /\ UNCHANGED flows

Spec == Init /\ [][Next]_vars

\* The four queries that answer from the stores.  None of them has an
\* assignment to a store, an object or a counter; what they return is what
\* the response operators above compute.
simulateSearchIdentity(by, value) ==
  /\ SearchIdentityResponse(by, value).http \in {200, 404}
  /\ UNCHANGED vars

simulateListAccountsByIdentity(identityId) ==
  /\ ListAccountsByIdentityResponse(identityId).http = 200
  /\ UNCHANGED vars

simulateGetUserDetails(sailpointIdentityId) ==
  /\ GetUserDetailsResponse(sailpointIdentityId).http \in {200, 404}
  /\ UNCHANGED vars

simulateGetUserEntitlements(sailpointIdentityId) ==
  /\ GetUserEntitlementsResponse(sailpointIdentityId).http \in {200, 404}
  /\ UNCHANGED vars

\* the ids the four queries are made with
QueryArgs == {User1IdentityId, UnknownId}

\* the direct calls, the four queries among them
NextQueries ==
  \/ Next
  \/ \E by \in {"email", "accountId", "identityId"}, value \in QueryArgs :
       simulateSearchIdentity(by, value)
  \/ \E identityId \in QueryArgs : simulateListAccountsByIdentity(identityId)
  \/ \E identityId \in QueryArgs : simulateGetUserDetails(identityId)
  \/ \E identityId \in QueryArgs : simulateGetUserEntitlements(identityId)

SpecQueries == Init /\ [][NextQueries]_vars

\* -------------------------------------------------------------- workflows
\* routes/contractors.js: POST /onboard and POST /offboard.  A request runs
\* from one call on the service to the next; other requests and direct calls
\* run in between.  The service is a module the routes import; the route
\* tests replace it by doubles, so a status query or an access request made
\* by a request either reaches the simulator or is rejected.
MaxFlows == 1       \* requests that are received
MaxItems == 2       \* length of initialAccess

attempts == 5       \* pollTaskStatus(taskId, attempts = 5, delay = 200)

terminatedLifecycleState == "terminated"

RequiredFields ==
  {"firstName", "lastName", "email", "managerSailPointId", "attributes"}

\* the bodies /onboard is sent: complete, or with one required field missing
OnboardBodies ==
  {[missing |-> "none", mail |-> m] : m \in Emails} \cup
  {[missing |-> x, mail |-> IF x = "email" THEN NoMail ELSE <<"mail", 1>>] :
     x \in RequiredFields}

\* the identity ids /offboard is sent: a seeded Identity, those createAccount
\* made, an id nobody has, and undefined when the field is missing
OffboardArgs ==
  {User1IdentityId, UnknownId, Undefined} \cup
  {objs[r].id : r \in {q \in DOMAIN objs : objs[q].sourceAccountId # Undefined}}

\* an element of initialAccess: a bare id (a string) or an {id, type} pair
ItemAt(j) ==
  IF j % 2 = 1 THEN [bare |-> TRUE, id |-> <<"item", j>>, type |-> "undefined"]
  ELSE [bare |-> FALSE, id |-> <<"item", j>>, type |-> "ROLE"]

AccessLists == {[j \in 1..n |-> ItemAt(j)] : n \in 0..MaxItems}

\* utils/errors.js: statusCode and what the message names
NoError == [name |-> "none", statusCode |-> 0, taskId |-> Undefined, attempts |-> 0]

ApiError(statusCode, name) ==
  [NoError EXCEPT !.name = name, !.statusCode = statusCode]

BadRequestError == ApiError(400, "BadRequestError")

\* `Task ${taskId} did not complete after ${attempts} attempts.`
TaskTimeout(taskId, n) ==
  [ApiError(500, "TaskTimeout") EXCEPT !.taskId = taskId, !.attempts = n]

\* the doubles of simulateSearchIdentity a route test sets up before it sends
\* the request: the identity id each search answers with, undefined for an
\* answer without a match; off when the request runs on the simulator
NoDoubles == [on |-> FALSE, byAccountId |-> Undefined, byEmail |-> Undefined]

Doubles(byAccountId, byEmail) ==
  [on |-> TRUE, byAccountId |-> byAccountId, byEmail |-> byEmail]

\* a request: its body, where it stands, what it has done (the status
\* queries made, how many were rejected, how many showed COMPLETED, what the
\* last one showed, the searches, the access requests) and its response
Flow(kind) ==
  [kind |-> kind, pc |-> "poll", missing |-> "none", mail |-> NoMail,
   identityId |-> Undefined, taskId |-> Undefined, submitted |-> 0,
   attempts |-> attempts, i |-> 0, queries |-> 0, rejected |-> 0, completed |-> 0, last |-> "none",
   accountId |-> Undefined, searches |-> 0, result |-> NoResult,
   doubles |-> NoDoubles, others |-> 0,
   items |-> <<>>, grants |-> <<>>, http |-> 0, error |-> NoError]

\* catch (error) { next(error) }
Caught(f, error) == [f EXCEPT !.pc = "catch", !.error = error]

\* MissingRequired leaving out the last operand
MissingRequiredButAttributes(body) == body.missing \notin {"none", "attributes"}

\* !firstName || !lastName || !email || !managerSailPointId || !attributes
MissingRequired(body) == body.missing # "none"

\* /onboard up to its call of simulateCreateAccount
Onboard(body, t) ==
  IF MissingRequired(body)
  THEN /\ t = now
       /\ UNCHANGED service
       /\ flows' = Append(flows,
            Caught([Flow("onboard") EXCEPT !.missing = body.missing,
                                           !.mail = body.mail],
                   BadRequestError))
  ELSE /\ simulateCreateAccount(body.mail, t)
       /\ flows' = Append(flows,
            [Flow("onboard") EXCEPT !.missing = body.missing,
                                    !.mail = body.mail,
                                    !.taskId = CreateAccountResponse(t).id,
                                    !.submitted = Len(issued) + 1])

\* a request that is received while fewer than MaxFlows are
OnboardStart(body, t) ==
  /\ Len(flows) < MaxFlows
  /\ Onboard(body, t)

\* the values of process.env.SAILPOINT_TERMINATED_LCS: unset, the default
\* spelled out, and a provider-defined state
Unset == ""
TerminatedLcsValues == {Unset, "terminated", "inactive"}

\* process.env.SAILPOINT_TERMINATED_LCS || 'terminated'
ConfiguredState(env) == IF env = Unset THEN terminatedLifecycleState ELSE env

\* /offboard up to its call of setLifecycleState, with the terminated state
\* it is configured with; lcsResponse.data.id is read whatever
\* lcsResponse.status is
Offboard(identityId, state, t) ==
  /\ Len(flows) < MaxFlows
  /\ IF identityId = Undefined
     THEN /\ t = now
          /\ UNCHANGED service
          /\ flows' = Append(flows,
               Caught([Flow("offboard") EXCEPT !.missing = "contractorSailPointIdentityId"],
                      BadRequestError))
     ELSE /\ simulateSetLifecycleState(identityId, state, t)
          /\ flows' = Append(flows,
               [Flow("offboard") EXCEPT
                  !.identityId = identityId,
                  !.taskId = SetLifecycleStateResponse(identityId, t).id,
                  !.submitted =
                    IF SetLifecycleStateResponse(identityId, t).http = 202
                    THEN Len(issued) + 1 ELSE 0])

\* /offboard in a process that runs without SAILPOINT_TERMINATED_LCS
OffboardStart(identityId, t) ==
  Offboard(identityId, ConfiguredState(Unset), t)

\* MoreAttempts making one attempt more
MoreAttemptsInclusive(f) == f.i <= f.attempts

\* for (let i = 0; i < attempts; i++)
MoreAttempts(f) == f.i < f.attempts

\* what an attempt sees: the status of the snapshot ("none" if the response
\* has none), or a rejected query
Observed(taskResponse) ==
  IF taskResponse.threw THEN "threw" ELSE taskResponse.status

\* taskResponse.data && taskResponse.data.status === 'COMPLETED'
Completed(taskResponse) ==
  ~taskResponse.threw /\ taskResponse.status = "COMPLETED"

\* what a double of simulateSearchIdentity answers with
SearchDoubleResponse(identityId) ==
  IF identityId = Undefined THEN Response(404)
  ELSE [Response(200) EXCEPT !.id = identityId, !.count = 1]

\* await simulateSearchIdentity(query) as request f makes it: on the
\* simulator, or answered by the double
SearchIdentity(f, by, value) ==
  IF ~f.doubles.on THEN SearchIdentityResponse(by, value)
  ELSE IF by = "accountId" THEN SearchDoubleResponse(f.doubles.byAccountId)
  ELSE SearchDoubleResponse(f.doubles.byEmail)

\* OnboardResolved asking for the email before the account id
OnboardResolvedEmailFirst(f, taskResult) ==
  IF \/ taskResult.status # "COMPLETED"
     \/ ~taskResult.result.present
     \/ taskResult.result.accountId = Undefined
  THEN Caught([f EXCEPT !.result = taskResult.result],
              ApiError(500, "AccountCreationFailed"))
  ELSE LET newSailPointAccountId == taskResult.result.accountId
           byAccountId == SearchIdentity(f, "accountId", newSailPointAccountId)
           byEmail == SearchIdentity(f, "email", f.mail)
           inResult == taskResult.result.identityId # Undefined
           newContractorIdentityId ==
             IF inResult THEN taskResult.result.identityId
             ELSE IF byEmail.count > 0 THEN byEmail.id
             ELSE IF byAccountId.count > 0 THEN byAccountId.id
             ELSE Undefined
           g == [f EXCEPT !.accountId = newSailPointAccountId,
                          !.result = taskResult.result,
                          !.identityId = newContractorIdentityId,
                          !.searches = IF inResult THEN 0
                                       ELSE IF byEmail.count > 0 THEN 1 ELSE 2]
       IN IF newContractorIdentityId = Undefined
          THEN Caught(g, ApiError(500, "IdentityNotFound"))
          ELSE [g EXCEPT !.pc = "grant"]

\* steps 2 and 3 of /onboard once the poll has resolved with taskResult: the
\* check of the result, then the identity id from the result, else from the
\* search by account id, else from the search by email
OnboardResolved(f, taskResult) ==
  IF \/ taskResult.status # "COMPLETED"
     \/ ~taskResult.result.present
     \/ taskResult.result.accountId = Undefined
  THEN Caught([f EXCEPT !.result = taskResult.result],
              ApiError(500, "AccountCreationFailed"))
  ELSE LET newSailPointAccountId == taskResult.result.accountId
           byAccountId == SearchIdentity(f, "accountId", newSailPointAccountId)
           byEmail == SearchIdentity(f, "email", f.mail)
           inResult == taskResult.result.identityId # Undefined
           newContractorIdentityId ==
             IF inResult THEN taskResult.result.identityId
             ELSE IF byAccountId.count > 0 THEN byAccountId.id
             ELSE IF byEmail.count > 0 THEN byEmail.id
             ELSE Undefined
           g == [f EXCEPT !.accountId = newSailPointAccountId,
                          !.result = taskResult.result,
                          !.identityId = newContractorIdentityId,
                          !.searches = IF inResult THEN 0
                                       ELSE IF byAccountId.count > 0 THEN 1 ELSE 2]
       IN IF newContractorIdentityId = Undefined
          THEN Caught(g, ApiError(500, "IdentityNotFound"))
          ELSE [g EXCEPT !.pc = "grant"]

\* /offboard once the poll has resolved: res.status(202)
OffboardResolved(f, taskResult) ==
  IF taskResult.status # "COMPLETED"
  THEN Caught(f, ApiError(500, "LifecycleChangeFailed"))
  ELSE [f EXCEPT !.pc = "done", !.http = 202]

\* AfterAttempt with the catch of pollTaskStatus rejecting the poll
AfterAttemptAbortOnError(f, taskResponse) ==
  IF taskResponse.threw THEN Caught(f, TaskTimeout(f.taskId, f.attempts))
  ELSE IF Completed(taskResponse)
  THEN IF f.kind = "onboard" THEN OnboardResolved(f, taskResponse)
       ELSE OffboardResolved(f, taskResponse)
  ELSE IF MoreAttempts(f) THEN f
  ELSE Caught(f, TaskTimeout(f.taskId, f.attempts))

\* AfterAttempt resolving with nothing when the attempts are used up
AfterAttemptResolveAtEnd(f, taskResponse) ==
  IF Completed(taskResponse) \/ ~MoreAttempts(f)
  THEN IF f.kind = "onboard" THEN OnboardResolved(f, taskResponse)
       ELSE OffboardResolved(f, taskResponse)
  ELSE f

\* AfterAttempt starting the loop again when the attempts are used up
AfterAttemptStartAgain(f, taskResponse) ==
  IF Completed(taskResponse)
  THEN IF f.kind = "onboard" THEN OnboardResolved(f, taskResponse)
       ELSE OffboardResolved(f, taskResponse)
  ELSE IF MoreAttempts(f) THEN f
  ELSE [f EXCEPT !.i = 0, !.queries = 0, !.rejected = 0, !.last = "none"]

\* the request after the attempt that made f.i attempts: the poll resolves
\* with the snapshot, goes on, or rejects when no attempt is left
AfterAttempt(f, taskResponse) ==
  IF Completed(taskResponse)
  THEN IF f.kind = "onboard" THEN OnboardResolved(f, taskResponse)
       ELSE OffboardResolved(f, taskResponse)
  ELSE IF MoreAttempts(f) THEN f
  ELSE Caught(f, TaskTimeout(f.taskId, f.attempts))

\* one attempt of pollTaskStatus: the query (rejected if fails), then the
\* delay, and what follows the poll when it ends here
\* what request k has done after the attempt that was answered taskResponse
Attempt(k, taskResponse) ==
  LET f == flows[k]
  IN flows' = [flows EXCEPT ![k] =
       AfterAttempt([f EXCEPT !.i = @ + 1,
                              !.queries = @ + 1,
                              !.rejected = IF taskResponse.threw THEN @ + 1 ELSE @,
                              !.completed = IF Observed(taskResponse) = "COMPLETED"
                                            THEN @ + 1 ELSE @,
                              !.last = Observed(taskResponse)],
                    taskResponse)]

Poll(k, fails) ==
  LET f == flows[k]
      taskResponse == IF fails THEN Thrown ELSE GetTaskStatusResponse(f.taskId)
  IN /\ f.pc = "poll"
     /\ MoreAttempts(f)
     /\ IF fails THEN UNCHANGED service ELSE simulateGetTaskStatus(f.taskId)
     /\ Attempt(k, taskResponse)

itemType(accessItem) == IF accessItem.bare THEN "ACCESS_PROFILE" ELSE accessItem.type

itemId(accessItem) == accessItem.id

\* SubmitAll leaving the loop at the first access request that is rejected
SubmitUntilRejected(identityId, initialAccess, ok) ==
  LET S == {j \in DOMAIN initialAccess : ~ok[j]}
      n == IF S = {} THEN Len(initialAccess) ELSE CHOOSE j \in S : \A l \in S : j <= l
  IN [j \in 1..n |->
        [requestedFor |-> identityId, id |-> itemId(initialAccess[j]),
         type |-> itemType(initialAccess[j]), ok |-> ok[j]]]

\* for (const accessItem of initialAccess): the access requests posted, in
\* the order posted, each accepted (ok) or rejected and caught
SubmitAll(identityId, initialAccess, ok) ==
  [j \in DOMAIN initialAccess |->
     [requestedFor |-> identityId, id |-> itemId(initialAccess[j]),
      type |-> itemType(initialAccess[j]), ok |-> ok[j]]]

\* Grant not waiting for the poll
GrantWhilePolling(k, initialAccess, ok) ==
  /\ flows[k].pc \in {"poll", "grant"}
  /\ flows[k].kind = "onboard"
  /\ UNCHANGED service
  /\ flows' = [flows EXCEPT ![k] =
       [@ EXCEPT !.pc = "done", !.http = 202, !.items = initialAccess,
                 !.grants = SubmitAll(flows[k].identityId, initialAccess, ok)]]

\* step 4 and 5 of /onboard: the access requests, then res.status(202)
Grant(k, initialAccess, ok) ==
  /\ flows[k].pc = "grant"
  /\ UNCHANGED service
  /\ flows' = [flows EXCEPT ![k] =
       [@ EXCEPT !.pc = "done", !.http = 202, !.items = initialAccess,
                 !.grants = SubmitAll(flows[k].identityId, initialAccess, ok)]]

\* errorHandler with a compensating step that forgets the request's task
errorHandlerWithRollback(k) ==
  /\ flows[k].pc = "catch"
  /\ UNCHANGED <<now, accountCounter, identityCounter, simulatedIdentitiesStore,
                 objs, issued, accessToken, tokenCalls>>
  /\ simulatedAccountsStore' =
       [id \in DOMAIN simulatedAccountsStore \ {flows[k].taskId} |->
          simulatedAccountsStore[id]]
  /\ flows' = [flows EXCEPT ![k] =
       [@ EXCEPT !.pc = "done",
                 !.http = IF flows[k].error.statusCode # 0
                          THEN flows[k].error.statusCode ELSE 500]]

\* middleware/errorHandlerMiddleware.js:
\* res.status(err.statusCode || 500).json({error: message})
errorHandler(k) ==
  /\ flows[k].pc = "catch"
  /\ UNCHANGED service
  /\ flows' = [flows EXCEPT ![k] =
       [@ EXCEPT !.pc = "done",
                 !.http = IF flows[k].error.statusCode # 0
                          THEN flows[k].error.statusCode ELSE 500]]

NextFlow ==
  \/ \E body \in OnboardBodies, t \in Readings : OnboardStart(body, t)
  \/ \E identityId \in OffboardArgs, t \in Readings : OffboardStart(identityId, t)
  \/ \E k \in DOMAIN flows, fails \in BOOLEAN : Poll(k, fails)
  \/ \E k \in DOMAIN flows, initialAccess \in AccessLists :
       \E ok \in [DOMAIN initialAccess -> BOOLEAN] : Grant(k, initialAccess, ok)
  \/ \E k \in DOMAIN flows : errorHandler(k)

SpecFlow == Init /\ [][NextFlow]_vars

\* a step of a request that has been received
FlowStep ==
  \/ \E k \in DOMAIN flows, fails \in BOOLEAN : Poll(k, fails)
  \/ \E k \in DOMAIN flows, initialAccess \in AccessLists :
       \E ok \in [DOMAIN initialAccess -> BOOLEAN] : Grant(k, initialAccess, ok)
  \/ \E k \in DOMAIN flows : errorHandler(k)


\* ------------------------------------------------- configured offboarding
\* /offboard in processes that set SAILPOINT_TERMINATED_LCS
NextConfigured ==
  \/ \E identityId \in OffboardArgs, env \in TerminatedLcsValues, t \in Readings :
       Offboard(identityId, ConfiguredState(env), t)
  \/ \E k \in DOMAIN flows, fails \in BOOLEAN : Poll(k, fails)
  \/ \E k \in DOMAIN flows : errorHandler(k)

SpecConfigured == Init /\ [][NextConfigured]_vars

\* ---------------------------------------------------- concurrent requests
\* /onboard requests that are in progress together: each runs from one
\* await to the next, and the steps of the others come in between.  Two
\* requests that wait for the same token timer (getAccessToken) resume in
\* the same millisecond.
MaxRuns == 2        \* onboard requests in progress together

AllAccepted(initialAccess) == [j \in DOMAIN initialAccess |-> TRUE]

NextConcurrent ==
  \/ \E mail \in Emails, t \in Readings :
       /\ Len(flows) < MaxRuns
       /\ Onboard([missing |-> "none", mail |-> mail], t)
  \/ \E k \in DOMAIN flows : Poll(k, FALSE)
  \/ \E k \in DOMAIN flows, initialAccess \in AccessLists :
       Grant(k, initialAccess, AllAccepted(initialAccess))

SpecConcurrent == Init /\ [][NextConcurrent]_vars

\* ------------------------------------------------- routes on test doubles
\* routes/__tests__/contractors.test.js: jest.mock replaces every function
\* of the service by a double the test programs (mockResolvedValue,
\* mockResolvedValueOnce), so /onboard meets answers the simulator never
\* gives: a COMPLETED snapshot without a result, without an account id or
\* without an identity id, and searches without a match.  The doubles keep
\* no state.
MockTaskId == <<"task-acc-create", 123>>
MockAccountId == <<"sim-acc-new", 1>>
MockIdentityId == <<"sim-id-new", 1>>
MockIdentityIdByAccount == <<"sim-id-new", 2>>
MockIdentityIdByEmail == <<"sim-id-new", 3>>

MockResult(accountId, identityId) ==
  [present |-> TRUE, accountId |-> accountId, identityId |-> identityId,
   status |-> "success"]

\* the answers programmed for simulateGetTaskStatus
MockTaskResponses ==
  {Snapshot(MockTaskId, "PROCESSING", NoResult),
   Snapshot(MockTaskId, "COMPLETED", NoResult),
   Snapshot(MockTaskId, "COMPLETED", MockResult(Undefined, MockIdentityId)),
   Snapshot(MockTaskId, "COMPLETED", MockResult(MockAccountId, MockIdentityId)),
   Snapshot(MockTaskId, "COMPLETED", MockResult(MockAccountId, Undefined))}

\* the answers programmed for the two searches
MockSearches ==
  {Doubles(a, e) : a \in {Undefined, MockIdentityIdByAccount},
                   e \in {Undefined, MockIdentityIdByEmail}}

\* /onboard with a valid body, up to pollTaskStatus; simulateCreateAccount
\* is the double that answers with MockTaskId
OnboardMocked(mail, doubles) ==
  /\ Len(flows) < MaxFlows
  /\ UNCHANGED service
  /\ flows' = Append(flows,
       [Flow("onboard") EXCEPT !.mail = mail, !.taskId = MockTaskId,
                               !.doubles = doubles])

\* one attempt of pollTaskStatus answered by the double
PollMocked(k, taskResponse) ==
  /\ flows[k].pc = "poll"
  /\ MoreAttempts(flows[k])
  /\ UNCHANGED service
  /\ Attempt(k, taskResponse)

NextMocked ==
  \/ \E doubles \in MockSearches : OnboardMocked(<<"mail", 1>>, doubles)
  \/ \E k \in DOMAIN flows, taskResponse \in MockTaskResponses :
       PollMocked(k, taskResponse)
  \/ \E k \in DOMAIN flows, initialAccess \in AccessLists :
       Grant(k, initialAccess, AllAccepted(initialAccess))
  \/ \E k \in DOMAIN flows : errorHandler(k)

SpecMocked == Init /\ [][NextMocked]_vars

\* ------------------------------------------------------ polls with a budget
\* pollTaskStatus(taskId, attempts) on the Task a createAccount or a
\* setLifecycleState call has just returned, with the attempt budget the
\* caller passes, while other callers query the status of the same Task.
\* A request counts the queries others make on its Task while it polls
\* (0, 1, or 2 for more).
MaxAttempts == 3    \* the largest attempt budget passed

Budgets == 1..MaxAttempts

OnboardWithBudget(mail, budget, t) ==
  /\ Len(flows) < MaxRuns
  /\ simulateCreateAccount(mail, t)
  /\ flows' = Append(flows,
       [Flow("onboard") EXCEPT !.mail = mail,
                               !.taskId = CreateAccountResponse(t).id,
                               !.submitted = Len(issued) + 1,
                               !.attempts = budget])

OffboardWithBudget(identityId, budget, t) ==
  /\ Len(flows) < MaxRuns
  /\ SetLifecycleStateResponse(identityId, t).http = 202
  /\ simulateSetLifecycleState(identityId, terminatedLifecycleState, t)
  /\ flows' = Append(flows,
       [Flow("offboard") EXCEPT !.identityId = identityId,
                                !.taskId = SetLifecycleStateResponse(identityId, t).id,
                                !.submitted = Len(issued) + 1,
                                !.attempts = budget])

\* a status query by a caller that is not the poll of a request
OtherQuery(taskId) ==
  /\ simulateGetTaskStatus(taskId)
  /\ flows' = [k \in DOMAIN flows |->
       IF flows[k].pc = "poll" /\ flows[k].taskId = taskId /\ flows[k].others < 2
       THEN [flows[k] EXCEPT !.others = @ + 1] ELSE flows[k]]

NextPoll ==
  \/ \E budget \in Budgets, t \in Readings :
       OnboardWithBudget(<<"mail", 1>>, budget, t)
  \/ \E budget \in Budgets, t \in Readings :
       OffboardWithBudget(User1IdentityId, budget, t)
  \/ \E k \in DOMAIN flows : Poll(k, FALSE)
  \/ \E k \in DOMAIN flows : OtherQuery(flows[k].taskId)
  \/ \E k \in DOMAIN flows, initialAccess \in AccessLists :
       Grant(k, initialAccess, AllAccepted(initialAccess))
  \/ \E k \in DOMAIN flows : errorHandler(k)

SpecPoll == Init /\ [][NextPoll]_vars

\* ------------------------------------------- one request and other callers
\* no request has been received yet
NoneReceived == flows = <<>>

\* one request, from its arrival to its answer, while other callers of the
\* service query the task the request polls
NextServed ==
  \/ \E body \in OnboardBodies, t \in Readings :
       NoneReceived /\ OnboardStart(body, t)
  \/ \E identityId \in OffboardArgs, t \in Readings :
       NoneReceived /\ OffboardStart(identityId, t)
  \/ \E k \in DOMAIN flows, fails \in BOOLEAN : Poll(k, fails)
  \/ \E k \in DOMAIN flows : flows[k].pc = "poll" /\ OtherQuery(flows[k].taskId)
  \/ \E k \in DOMAIN flows, initialAccess \in AccessLists :
       \E ok \in [DOMAIN initialAccess -> BOOLEAN] : Grant(k, initialAccess, ok)
  \/ \E k \in DOMAIN flows : errorHandler(k)

SpecServed == Init /\ [][NextServed]_vars

\* A request that has been received goes on: the event loop runs every
\* timer that is due (the delay of the poll) and every continuation of a
\* settled promise, so a step of a request that can be taken is taken.
\* Nothing makes another caller query.
FairServed == SpecServed /\ WF_vars(FlowStep)

\* ------------------------------------------------------- derived notions
Last(seq) == seq[Len(seq)]

\* the ids under which the ledger holds a Task record
LedgerIds ==
  DOMAIN simulatedAccountsStore \cup
  {k \in Keys : objs[StoreRef(k)].kind = "task"}

\* the status recorded for a task id
TaskStatus(taskId) ==
  IF taskId \in DOMAIN simulatedAccountsStore
  THEN simulatedAccountsStore[taskId].status
  ELSE objs[StoreRef(taskId)].status

\* the task ids the task-creating calls have returned
IssuedTaskIds == {issued[i].taskId : i \in DOMAIN issued}

\* the objects that are Identities, and those createAccount made
IdentityRefs == {r \in DOMAIN objs : objs[r].kind = "identity"}
CreatedRefs == {r \in IdentityRefs : objs[r].sourceAccountId # Undefined}

\* the status of an account in the accounts list under which
\* disableAccount finds it
OwnerStatus(accountId) ==
  LET o == objs[RefAt(IdentityKeyForAccount(accountId))]
  IN o.accounts[AccountIndex(o.accounts, accountId)].status

\* a response shows every account it lists with the owner's status
ShowsOwnerStatus(v) ==
  \A j \in DOMAIN v.accounts :
    v.accounts[j].status = OwnerStatus(v.accounts[j].id)

\* a response lists the account
Lists(v, accountId) == AccountIndex(v.accounts, accountId) # 0

\* the ids of the Identities of the directory
IdentityIds == {objs[r].id : r \in IdentityRefs}

\* every id in use and two that are not: an unknown one and undefined
AllIds ==
  DOMAIN simulatedAccountsStore \cup Keys \cup IdentityIds \cup AccountIds \cup
  {UnknownId, Undefined}

\* the account ids under which createAccount has indexed an Identity
IndexedAccountIds == {objs[r].sourceAccountId : r \in CreatedRefs}

\* the Identity that has the id
IdentityWithId(id) == CHOOSE r \in IdentityRefs : objs[r].id = id

\* the Identities whose accounts list holds the account id
Owners(accountId) ==
  {r \in IdentityRefs : AccountIndex(objs[r].accounts, accountId) # 0}

\* this step is a createAccount call
CreatesAccount ==
  /\ Len(issued') = Len(issued) + 1
  /\ issued'[Len(issued')].op = "createAccount"

\* this step is taken by request k
Steps(k) == k \notin DOMAIN flows \/ flows'[k] # flows[k]

\* the poll of a request has rejected
TimedOut(f) == f.error.name = "TaskTimeout"

\* the identity id owns the account id in the directory
Owns(identityId, accountId) ==
  /\ StoreRef(identityId) \in IdentityRefs
  /\ objs[StoreRef(identityId)].id = identityId
  /\ AccountIndex(objs[StoreRef(identityId)].accounts, accountId) # 0

\* ----------------------------------------------------------------- claims

\* C1: for every Task a createAccount, disableAccount or setLifecycleState
\* call returned, the status queries on its id give snapshots: PROCESSING on
\* the first query, COMPLETED on the second and on every later one.  Stated
\* on the query that comes next after the entry's n queries.
C1_QueriesGoProcessingThenCompleted ==
  \A i \in DOMAIN issued :
    LET r == GetTaskStatusResponse(issued[i].taskId)
    IN /\ ~r.threw
       /\ r.http = 200
       /\ r.status = IF issued[i].n = 0 THEN "PROCESSING" ELSE "COMPLETED"

\* C2: the status recorded for a task id changes only by a status query on
\* that id, and only from QUEUED to PROCESSING or from PROCESSING to
\* COMPLETED, whatever the clock readings of the calls.
C2_StatusMovesOnlyForwardByQuery ==
  [][\A id \in LedgerIds :
       TaskStatus(id)' # TaskStatus(id) =>
         /\ simulateGetTaskStatus(id)
         /\ <<TaskStatus(id), TaskStatus(id)'>> \in
              {<<"QUEUED", "PROCESSING">>, <<"PROCESSING", "COMPLETED">>}]_vars

\* C3: every task id returned differs from the id of every Task already in
\* the ledger, also at equal clock readings, and no Task record is
\* overwritten or removed: the ids returned so far are pairwise different
\* and the ledger holds one record for each.
C3_TaskIdsAreUnique ==
  /\ \A i, j \in DOMAIN issued : i # j => issued[i].taskId # issued[j].taskId
  /\ Cardinality(LedgerIds) = Len(issued)

\* C4: right after createAccount returns, before any status query on the
\* returned task, the directory holds the new Identity in state active with
\* exactly one Account, which is the new one and enabled; no other object
\* has that identity id or lists that account; the search by the account id
\* returns this Identity; and the Task is QUEUED.
C4_CreateAccountIsImmediate ==
  (issued # <<>> /\ Last(issued).op = "createAccount" /\ Last(issued).n = 0) =>
    LET e == Last(issued)
        ref == StoreRef(e.identityId)
    IN /\ ref # 0
       /\ objs[ref].kind = "identity"
       /\ objs[ref].id = e.identityId
       /\ objs[ref].lifecycleState = "active"
       /\ objs[ref].accounts = <<Account(e.accountId, "enabled")>>
       /\ \A r \in IdentityRefs \ {ref} :
            /\ objs[r].id # e.identityId
            /\ AccountIndex(objs[r].accounts, e.accountId) = 0
       /\ SearchIdentityResponse("accountId", e.accountId).http = 200
       /\ SearchIdentityResponse("accountId", e.accountId).count = 1
       /\ SearchIdentityResponse("accountId", e.accountId).id = e.identityId
       /\ CreateAccountResponse(now).id = e.taskId
       /\ CreateAccountResponse(now).status = "QUEUED"
       /\ e.taskId \in LedgerIds
       /\ TaskStatus(e.taskId) = "QUEUED"

\* C4 witness: a second createAccount has just returned, after a first one
\* whose task was queried.
C4_Witness ==
  /\ Len(issued) = 2
  /\ issued[1].op = "createAccount" /\ issued[1].n > 0
  /\ issued[2].op = "createAccount" /\ issued[2].n = 0

\* C5: when the Task a createAccount call returned is COMPLETED, its result
\* names the account that call created and the Identity whose accounts list
\* holds that account.
C5_ResultNamesTheCreatedAccount ==
  \A i \in DOMAIN issued :
    issued[i].op = "createAccount" =>
      LET r == GetTaskStatusResponse(issued[i].taskId)
      IN (r.http = 200 /\ r.status = "COMPLETED") =>
           /\ r.result.accountId = issued[i].accountId
           /\ r.result.identityId = issued[i].identityId
           /\ AccountIndex(objs[StoreRef(r.result.identityId)].accounts,
                           issued[i].accountId) # 0

\* C6: for every Identity createAccount made, the searches by its email, by
\* its account id and by its identity id each return exactly one match, and
\* the three matches carry that Identity's id, also after later createAccount
\* calls.
C6_ThreeSearchesAgree ==
  \A r \in CreatedRefs :
    \A q \in {<<"email", objs[r].email>>,
              <<"accountId", objs[r].sourceAccountId>>,
              <<"identityId", objs[r].id>>} :
      /\ SearchIdentityResponse(q[1], q[2]).http = 200
      /\ SearchIdentityResponse(q[1], q[2]).count = 1
      /\ SearchIdentityResponse(q[1], q[2]).id = objs[r].id

\* C7: once disableAccount(a) has succeeded, every view of account a
\* (listAccountsByIdentity, getUserDetails, searchIdentity, through the
\* identity id or the account id key) shows disabled; and in every state all
\* views of one account show the same status.
C7_DisabledInEveryView ==
  /\ \A i \in DOMAIN issued :
       issued[i].op = "disableAccount" =>
         /\ OwnerStatus(issued[i].accountId) = "disabled"
         /\ \E k \in Keys :
              Lists(ListAccountsByIdentityResponse(k), issued[i].accountId)
  /\ \A k \in Keys :
       /\ ShowsOwnerStatus(ListAccountsByIdentityResponse(k))
       /\ ShowsOwnerStatus(GetUserDetailsResponse(k))
       /\ ShowsOwnerStatus(SearchIdentityResponse("identityId", k))
  /\ \A a \in AccountIds : ShowsOwnerStatus(SearchIdentityResponse("accountId", a))
  /\ \A m \in EmailArgs : ShowsOwnerStatus(SearchIdentityResponse("email", m))

\* C7 witness: an account made by createAccount, seen through both of its
\* keys, has been disabled while the manager's account is enabled.
C7_Witness ==
  \E i \in DOMAIN issued :
    /\ issued[i].op = "disableAccount"
    /\ issued[i].accountId \in Keys
    /\ Lists(SearchIdentityResponse("accountId", issued[i].accountId),
             issued[i].accountId)
    /\ OwnerStatus(issued[i].accountId) = "disabled"
    /\ objs[1].accounts[1].status = "enabled"

\* C8: when setLifecycleState(i, 'terminated') has just succeeded on an
\* existing Identity, its lifecycle state is terminated and every account in
\* its accounts list is disabled, whether or not the task was queried.
C8_TerminatedDisablesAllAccounts ==
  (/\ issued # <<>>
   /\ Last(issued).op = "setLifecycleState"
   /\ Last(issued).newLifecycleState = "terminated"
   /\ findIdentityById(Last(issued).identityId) \in IdentityRefs) =>
    LET o == objs[findIdentityById(Last(issued).identityId)]
    IN /\ o.lifecycleState = "terminated"
       /\ \A j \in DOMAIN o.accounts : o.accounts[j].status = "disabled"
       /\ GetUserDetailsResponse(Last(issued).identityId).lifecycleState =
            "terminated"
       /\ \A j \in DOMAIN o.accounts :
            ListAccountsByIdentityResponse(Last(issued).identityId)
              .accounts[j].status = "disabled"

\* C8 witness: the Identity with two accounts has just been terminated, and
\* the task has not been queried yet.
C8_Witness ==
  /\ issued # <<>>
  /\ Last(issued).op = "setLifecycleState"
  /\ Last(issued).newLifecycleState = "terminated"
  /\ Last(issued).identityId = User1IdentityId
  /\ Last(issued).n = 0
  /\ Len(objs[2].accounts) = 2
  /\ objs[1].accounts[1].status = "enabled"

\* C9: getTaskStatus(id) signals NotFound and changes no state for every id
\* that no createAccount, disableAccount or setLifecycleState call returned,
\* the ids of Identities and Accounts of the directory included.
C9_UnknownTaskIdIsNotFound ==
  \A id \in TaskIdArgs \ IssuedTaskIds :
    /\ GetTaskStatusResponse(id).http = 404
    /\ ~ENABLED (simulateGetTaskStatus(id) /\ service' # service)

\* C10: for the Task a successful disableAccount(a) returned, every status
\* query returns a snapshot without failing, and from the second query on it
\* is COMPLETED with a result carrying accountId = a and status success.
C10_DisableTaskCompletes ==
  \A i \in DOMAIN issued :
    issued[i].op = "disableAccount" =>
      LET r == GetTaskStatusResponse(issued[i].taskId)
      IN /\ ~r.threw
         /\ r.http = 200
         /\ issued[i].n >= 1 =>
              /\ r.status = "COMPLETED"
              /\ r.result.accountId = issued[i].accountId
              /\ r.result.status = "success"

\* C11: disableAccount(a) for an id a that no Identity's accounts list
\* contains returns 404 and changes nothing: no Task is made and every
\* account status and the task ledger stay as they are, at any clock reading.
C11_UnknownAccountIsNotFound ==
  \A a \in AllIds \ AccountIds :
    /\ DisableAccountResponse(a, now).http = 404
    /\ \A t \in Readings :
         ~ENABLED (simulateDisableAccount(a, t) /\ service' # service)

\* C11 witness: the directory holds created and seeded accounts, one of them
\* disabled, the ledger holds a Task, and disableAccount is called with an
\* identity id and with an id nobody has.
C11_Witness ==
  /\ Len(issued) = 2
  /\ issued[1].op = "createAccount"
  /\ issued[2].op = "disableAccount"
  /\ issued[1].identityId \in AllIds \ AccountIds
  /\ ENABLED simulateDisableAccount(issued[1].identityId, now)
  /\ ENABLED simulateDisableAccount(UnknownId, now)

\* C12: setLifecycleState(i, s) for an id i that is neither the id of an
\* Identity nor of an Account of the directory returns 404 and changes
\* nothing: no Task, no lifecycle state, no account status, no ledger entry.
C12_UnknownIdentityIsNotFound ==
  \A i \in AllIds \ (IdentityIds \cup AccountIds) :
    /\ SetLifecycleStateResponse(i, now).http = 404
    /\ \A s \in LifecycleStates, t \in Readings :
         ~ENABLED (simulateSetLifecycleState(i, s, t) /\ service' # service)

\* C13: an onboarding run whose account-create task was observed COMPLETED
\* does not fail; when it has returned it has returned 202 with an account id
\* and the identity id that owns it, and it has posted exactly one access
\* request per initial access item, in list order, for that identity,
\* whichever of them were rejected.
C13_GrantsAreBestEffort ==
  \A k \in DOMAIN flows :
    LET f == flows[k]
    IN (f.kind = "onboard" /\ f.completed > 0) =>
         /\ f.pc \in {"grant", "done"}
         /\ f.error = NoError
         /\ f.pc = "done" =>
              /\ f.http = 202
              /\ Owns(f.identityId, f.accountId)
              /\ Len(f.grants) = Len(f.items)
              /\ \A j \in DOMAIN f.items :
                   /\ f.grants[j].id = itemId(f.items[j])
                   /\ f.grants[j].type = itemType(f.items[j])
                   /\ f.grants[j].requestedFor = f.identityId

\* C13 witness: an onboarding run has returned 202 after the first of its
\* two access requests was rejected and the second accepted.
C13_Witness ==
  \E k \in DOMAIN flows :
    /\ flows[k].kind = "onboard" /\ flows[k].pc = "done" /\ flows[k].http = 202
    /\ Len(flows[k].items) = 2
    /\ Len(flows[k].grants) = 2
    /\ ~flows[k].grants[1].ok
    /\ flows[k].grants[2].ok

\* C14: an offboard run whose setLifecycleState call reported 404 makes no
\* status query, does not end as a task timeout and answers 404.
C14_OffboardUnknownIsNotFound ==
  \A k \in DOMAIN flows :
    LET f == flows[k]
    IN (f.kind = "offboard" /\ f.missing = "none" /\ f.submitted = 0) =>
         /\ f.queries = 0
         /\ ~TimedOut(f)
         /\ f.pc = "done" => f.http = 404

C16_PollIsBounded ==
  \A k \in DOMAIN flows :
    LET f == flows[k]
    IN /\ f.queries <= f.attempts
       /\ f.completed <= 1
       /\ f.completed = 1 => (f.last = "COMPLETED" /\ f.pc # "poll" /\ ~TimedOut(f))
       /\ TimedOut(f) <=> (f.queries = f.attempts /\ f.completed = 0)
       /\ TimedOut(f) => (f.error.taskId = f.taskId /\ f.error.attempts = f.attempts)
       /\ f.pc = "poll" => (f.queries < f.attempts /\ f.completed = 0)

\* C16 witness: a poll has rejected after some of its queries were answered
\* with a status that was not COMPLETED.
C16_Witness ==
  \E k \in DOMAIN flows :
    /\ TimedOut(flows[k])
    /\ flows[k].queries = attempts
    /\ flows[k].rejected < flows[k].queries

\* C17: when status queries of a poll were rejected, each query, rejected or
\* not, has used one attempt; the poll has not ended for that: it goes on
\* while attempts are left and its next query can be made, it has rejected
\* only with all attempts used, and a COMPLETED seen afterwards resolved it.
C17_RejectedQueryIsAMissedAttempt ==
  \A k \in DOMAIN flows :
    LET f == flows[k]
    IN f.rejected > 0 =>
         /\ f.i = f.queries
         /\ f.rejected <= f.queries
         /\ TimedOut(f) => f.queries = f.attempts
         /\ (f.queries < f.attempts /\ f.completed = 0) =>
              (f.pc = "poll" /\ ENABLED Poll(k, FALSE))
         /\ f.last = "COMPLETED" => (f.pc \in {"grant", "done"} /\ f.error = NoError)

\* C17 witness: a run has returned 202 although a status query of its poll
\* was rejected.
C17_Witness ==
  \E k \in DOMAIN flows :
    /\ flows[k].rejected > 0
    /\ flows[k].last = "COMPLETED"
    /\ flows[k].pc = "done" /\ flows[k].http = 202

\* C18: an onboard run with a required field missing fails with the
\* validation error (400) and has made no createAccount call, no status
\* query, no search and no access request; and none of its steps changes
\* the service: no Account, Identity or Task is created.
C18_InvalidOnboardChangesNothing ==
  [][\A k \in DOMAIN flows' :
       LET f == flows'[k]
       IN (f.kind = "onboard" /\ f.missing # "none") =>
            /\ f.error = BadRequestError
            /\ f.pc \in {"catch", "done"}
            /\ f.pc = "done" => f.http = 400
            /\ f.submitted = 0 /\ f.taskId = Undefined
            /\ f.queries = 0 /\ f.searches = 0 /\ f.grants = <<>>
            /\ Steps(k) => UNCHANGED service]_vars

\* C18 witness: an onboard request without the attribute map has been
\* answered 400.
C18_Witness ==
  \E k \in DOMAIN flows :
    /\ flows[k].kind = "onboard" /\ flows[k].missing = "attributes"
    /\ flows[k].pc = "done" /\ flows[k].http = 400

\* C19: an onboard run whose poll used all its attempts without seeing
\* COMPLETED fails with the error that names the task id createAccount
\* returned, is answered 500, and has made no search and no access request.
C19_OnboardAbortsOnTimeout ==
  \A k \in DOMAIN flows :
    LET f == flows[k]
    IN (f.kind = "onboard" /\ f.queries = f.attempts /\ f.completed = 0) =>
         /\ TimedOut(f)
         /\ f.error.statusCode = 500
         /\ f.error.taskId = issued[f.submitted].taskId
         /\ f.pc \in {"catch", "done"}
         /\ f.pc = "done" => f.http = 500
         /\ f.searches = 0 /\ f.grants = <<>> /\ f.items = <<>>
         /\ f.accountId = Undefined

\* C19 witness: an onboard run has been answered 500 after a poll in which
\* one query showed PROCESSING and the others were rejected.
C19_Witness ==
  \E k \in DOMAIN flows :
    /\ flows[k].kind = "onboard" /\ TimedOut(flows[k])
    /\ flows[k].pc = "done" /\ flows[k].http = 500
    /\ flows[k].rejected = attempts - 1

\* request k, which has submitted, fails or is answered 500 in this step
Aborts(k) ==
  /\ flows[k].submitted # 0
  /\ flows'[k].error.statusCode = 500
  /\ \/ flows[k].pc = "poll" /\ flows'[k].pc = "catch"
     \/ flows[k].pc = "catch" /\ flows'[k].pc = "done"

\* C20: the step in which an onboard or offboard run fails after its
\* submission, and the step that answers 500, undo nothing: every Identity
\* and Account stays as it is, no key and no Task leaves the stores, and
\* after it the Task of the run is in the ledger, the Identity an onboard
\* created is in the directory with its account, and every account of the
\* Identity an offboard terminated is disabled.
C20_NothingIsRolledBack ==
  [][\A k \in DOMAIN flows :
       Aborts(k) =>
         LET e == issued[flows[k].submitted]
         IN /\ simulatedIdentitiesStore' = simulatedIdentitiesStore
            /\ \A r \in IdentityRefs : objs'[r] = objs[r]
            /\ LedgerIds' = LedgerIds
            /\ e.taskId \in LedgerIds'
            /\ flows[k].kind = "onboard" => Owns(e.identityId, e.accountId)'
            /\ flows[k].kind = "offboard" =>
                 \A j \in DOMAIN objs'[findIdentityById(e.identityId)].accounts :
                   objs'[findIdentityById(e.identityId)].accounts[j].status = "disabled"
    ]_vars

\* C20 witness: an onboard run has been answered 500 after its poll
\* rejected, and the Identity it created owns the account it created.
C20_Witness ==
  \E k \in DOMAIN flows :
    /\ flows[k].kind = "onboard" /\ flows[k].submitted # 0
    /\ flows[k].pc = "done" /\ flows[k].http = 500
    /\ Owns(issued[flows[k].submitted].identityId,
            issued[flows[k].submitted].accountId)
    /\ issued[flows[k].submitted].taskId \in LedgerIds

\* C21: an offboard run that has returned 202 for Identity i, whatever
\* terminated state the process is configured with: i's lifecycle state is
\* the state the run passed, every account of i is disabled, and the task id
\* returned is that of the lifecycle Task this run created, which is
\* COMPLETED.
C21_OffboardSuccessMeansTerminated ==
  \A k \in DOMAIN flows :
    LET f == flows[k]
    IN (f.kind = "offboard" /\ f.pc = "done" /\ f.http = 202) =>
         /\ f.submitted # 0
         /\ LET e == issued[f.submitted]
                o == objs[findIdentityById(f.identityId)]
            IN /\ e.op = "setLifecycleState"
               /\ e.identityId = f.identityId
               /\ f.taskId = e.taskId
               /\ e.taskId \in LedgerIds
               /\ TaskStatus(e.taskId) = "COMPLETED"
               /\ o.lifecycleState = e.newLifecycleState
               /\ \A j \in DOMAIN o.accounts : o.accounts[j].status = "disabled"

\* C22: listAccountsByIdentity(id) answers 200 for every id: with exactly
\* the accounts list of the Identity when id is the id of an Identity, and
\* with an empty list when id resolves to no Identity (an id nobody has,
\* undefined, a task id, an account id that is not an index key).
C22_ListAccountsNeverFails ==
  \A id \in AllIds :
    LET v == ListAccountsByIdentityResponse(id)
    IN /\ ~v.threw
       /\ v.http = 200
       /\ v.count = Len(v.accounts)
       /\ id \in IdentityIds => v.accounts = objs[IdentityWithId(id)].accounts
       /\ id \notin IdentityIds \cup IndexedAccountIds => v.accounts = <<>>

\* C22 witness: the accounts of a created Identity that was terminated are
\* listed (one, disabled), and the list for the lifecycle task id, for a
\* seeded account id and for an id nobody has is empty.
C22_Witness ==
  /\ Len(issued) = 2
  /\ issued[1].op = "createAccount"
  /\ issued[2].op = "setLifecycleState"
  /\ issued[2].identityId = issued[1].identityId
  /\ ListAccountsByIdentityResponse(issued[1].identityId).accounts =
       <<Account(issued[1].accountId, "disabled")>>
  /\ ListAccountsByIdentityResponse(issued[2].taskId).count = 0
  /\ ListAccountsByIdentityResponse(<<"sim-acc-jd1", 1>>).count = 0
  /\ ListAccountsByIdentityResponse(UnknownId).count = 0

\* C23: getUserEntitlements(id) answers 404 exactly when id resolves to no
\* Identity, and otherwise 200 with the access items of the Identity;
\* getUserDetails(id) answers 404 under the same condition and otherwise 200
\* with that Identity.
C23_EntitlementsAndDetailsOfIdentities ==
  \A id \in AllIds :
    LET e == GetUserEntitlementsResponse(id)
        d == GetUserDetailsResponse(id)
    IN /\ ~e.threw /\ ~d.threw
       /\ e.http = 404 <=> id \notin IdentityIds \cup IndexedAccountIds
       /\ d.http = 404 <=> id \notin IdentityIds \cup IndexedAccountIds
       /\ id \in IdentityIds =>
            /\ e.http = 200
            /\ e.access = objs[IdentityWithId(id)].access
            /\ d.http = 200
            /\ d.id = id
            /\ d.lifecycleState = objs[IdentityWithId(id)].lifecycleState
            /\ d.accounts = objs[IdentityWithId(id)].accounts

\* C24: of the onboard runs in progress together, each polls the task its
\* own createAccount call returned and no other run polls it; once its poll
\* has resolved it holds the account id that call created and the identity id
\* that owns it, and its access requests are for that identity.
C24_RunsDoNotMixUp ==
  \A k \in DOMAIN flows :
    LET f == flows[k]
    IN (f.kind = "onboard" /\ f.submitted # 0) =>
         LET e == issued[f.submitted]
         IN /\ f.taskId = e.taskId
            /\ \A l \in DOMAIN flows \ {k} : flows[l].taskId # f.taskId
            /\ (f.pc = "grant" \/ f.http = 202) =>
                 /\ f.accountId = e.accountId
                 /\ f.identityId = e.identityId
                 /\ Owns(f.identityId, f.accountId)
            /\ \A j \in DOMAIN f.grants : f.grants[j].requestedFor = e.identityId

\* C25: in every state each account id is in the accounts list of exactly
\* one Identity; no step changes the owner of an account; and the identity id
\* and the account id a createAccount call makes are ids nothing in the
\* directory or the ledger had before the call.
C25_OneOwnerForEver ==
  [][/\ \A a \in AccountIds :
          Cardinality(Owners(a)) = 1 /\ Owners(a)' = Owners(a)
     /\ \A a \in AccountIds' \ AccountIds : Cardinality(Owners(a)') = 1
     /\ \A r \in IdentityRefs : objs'[r].id = objs[r].id
     /\ CreatesAccount =>
          LET e == issued'[Len(issued')]
          IN /\ e.accountId \notin AllIds
             /\ e.identityId \notin AllIds
             /\ e.accountId # e.identityId
             /\ \E i \in IdentityIds', a \in AccountIds' :
                  i = e.identityId /\ a = e.accountId /\ Owns(i, a)'
    ]_vars

\* C25 witness: two accounts were created, each owned by the Identity made
\* with it, besides the three seeded accounts.
C25_Witness ==
  /\ Len(issued) = 2
  /\ issued[1].op = "createAccount" /\ issued[2].op = "createAccount"
  /\ Cardinality(AccountIds) = 5
  /\ Owns(issued[1].identityId, issued[1].accountId)
  /\ Owns(issued[2].identityId, issued[2].accountId)
  /\ ~Owns(issued[2].identityId, issued[1].accountId)

\* C26: the snapshot a status query returns for a Task carries a result
\* only if its status is COMPLETED; a PROCESSING snapshot carries none.
C26_ResultOnlyWhenCompleted ==
  \A i \in DOMAIN issued :
    LET r == GetTaskStatusResponse(issued[i].taskId)
    IN (~r.threw /\ r.http = 200) =>
         /\ r.result.present => r.status = "COMPLETED"
         /\ r.status = "PROCESSING" => r.result = NoResult

\* the createAccount calls made so far
CreateCalls == {i \in DOMAIN issued : issued[i].op = "createAccount"}

\* the onboard runs that have made their createAccount call
Submitted == {k \in DOMAIN flows : flows[k].kind = "onboard" /\ flows[k].submitted # 0}

\* where an onboard run stands agrees with what it has done
InOrder(f) ==
  /\ f.submitted # 0 => f.missing = "none"
  /\ f.queries > 0 => (f.submitted # 0 /\ f.taskId = issued[f.submitted].taskId)
  /\ f.pc = "poll" =>
       (f.submitted # 0 /\ f.completed = 0 /\ f.identityId = Undefined /\ f.grants = <<>>)
  /\ (f.searches > 0 \/ f.identityId # Undefined \/ f.accountId # Undefined) =>
       (f.completed = 1 /\ f.last = "COMPLETED")
  /\ f.pc = "grant" => (f.completed = 1 /\ f.identityId # Undefined /\ f.grants = <<>>)
  /\ f.grants # <<>> => (f.completed = 1 /\ f.identityId # Undefined /\ f.pc = "done")

\* C27: an onboarding run validates, then makes one createAccount call, then
\* queries the status of the task that call returned, one query per step,
\* then resolves the identity, then posts its access requests in list order;
\* no step does two of these, and no access request is posted before the
\* task was observed COMPLETED and an identity id was resolved.
C27_OnboardStepsInOrder ==
  [][/\ Cardinality(CreateCalls') = Cardinality(Submitted')
     /\ \A k \in DOMAIN flows' :
          (flows[k].kind = "onboard" => InOrder(flows[k]))'
     /\ \A k \in DOMAIN flows :
          flows[k].kind = "onboard" =>
            /\ flows'[k].submitted = flows[k].submitted
            /\ flows'[k].taskId = flows[k].taskId
            /\ flows'[k].queries # flows[k].queries =>
                 /\ flows'[k].queries = flows[k].queries + 1
                 /\ flows[k].pc = "poll"
                 /\ flows'[k].grants = <<>>
            /\ flows'[k].grants # flows[k].grants =>
                 /\ flows[k].pc = "grant"
                 /\ flows[k].grants = <<>>
                 /\ flows'[k].queries = flows[k].queries
                 /\ flows'[k].identityId = flows[k].identityId
                 /\ flows'[k].identityId # Undefined
                 /\ flows[k].completed = 1
    ]_vars

\* C27 witness: an onboarding run has returned 202 after a poll of two
\* answered queries and two access requests.
C27_Witness ==
  \E k \in DOMAIN flows :
    /\ flows[k].kind = "onboard" /\ flows[k].pc = "done" /\ flows[k].http = 202
    /\ flows[k].queries = 2 /\ flows[k].rejected = 0
    /\ Len(flows[k].grants) = 2

\* C28: an onboarding run whose poll resolved with an account id takes the
\* identity id of the task result when the result has one and makes no
\* search; otherwise it takes the one the search by account id returns, and
\* makes the search by email only if that search had no match; when neither
\* the result nor the two searches give an identity id it fails with a 500
\* error and posts no access request.
C28_IdentityResolutionOrder ==
  \A k \in DOMAIN flows :
    LET f == flows[k]
        d == IF f.doubles.on THEN f.doubles
             ELSE Doubles(SearchIdentityResponse("accountId", f.result.accountId).id,
                          SearchIdentityResponse("email", f.mail).id)
    IN (/\ f.kind = "onboard" /\ f.completed = 1
        /\ f.result.present /\ f.result.accountId # Undefined) =>
         /\ f.accountId = f.result.accountId
         /\ f.result.identityId # Undefined =>
              (f.identityId = f.result.identityId /\ f.searches = 0)
         /\ (f.result.identityId = Undefined /\ d.byAccountId # Undefined) =>
              (f.identityId = d.byAccountId /\ f.searches = 1)
         /\ (/\ f.result.identityId = Undefined /\ d.byAccountId = Undefined
             /\ d.byEmail # Undefined) =>
              (f.identityId = d.byEmail /\ f.searches = 2)
         /\ f.identityId # Undefined => (f.error = NoError /\ f.pc \in {"grant", "done"})
         /\ (/\ f.result.identityId = Undefined /\ d.byAccountId = Undefined
             /\ d.byEmail = Undefined) =>
              /\ f.identityId = Undefined
              /\ f.searches = 2
              /\ f.error = ApiError(500, "IdentityNotFound")
              /\ f.pc \in {"catch", "done"}
              /\ f.pc = "done" => f.http = 500
              /\ f.grants = <<>>

\* C28 witness: one run has posted an access request for the identity id
\* the search by email returned, after a result without identity id and a
\* search by account id without a match.
C28_Witness ==
  \E k \in DOMAIN flows :
    /\ flows[k].kind = "onboard" /\ flows[k].pc = "done" /\ flows[k].http = 202
    /\ flows[k].result = MockResult(MockAccountId, Undefined)
    /\ flows[k].doubles = Doubles(Undefined, MockIdentityIdByEmail)
    /\ flows[k].searches = 2
    /\ Len(flows[k].grants) > 0
    /\ flows[k].grants[1].requestedFor = MockIdentityIdByEmail

\* C29: getUserDetails, getUserEntitlements and setLifecycleState answer
\* 404 for every id that is neither the id of an Identity nor an account id
\* an Identity is indexed under; for the id of a Task in particular the
\* lookup finds nothing, and setLifecycleState on it changes no state.
C29_TaskIdsAreNotIdentities ==
  /\ \A id \in AllIds \ (IdentityIds \cup IndexedAccountIds) :
       /\ GetUserDetailsResponse(id).http = 404
       /\ GetUserEntitlementsResponse(id).http = 404
       /\ SetLifecycleStateResponse(id, now).http = 404
  /\ \A id \in LedgerIds :
       /\ findIdentityById(id) = 0
       /\ \A s \in LifecycleStates, t \in Readings :
            ~ENABLED (simulateSetLifecycleState(id, s, t) /\ service' # service)

\* C30: no two Identities of the directory have the same email, so the
\* search by email has at most one candidate.
C30_EmailsAreUnique ==
  \A m \in EmailArgs :
    Cardinality({r \in IdentityRefs : objs[r].email = m}) <= 1

\* C31: for every account in an accounts list of the directory, seeded or
\* created, the search by that account id returns one match, the Identity
\* under which disableAccount finds the account.
C31_SearchByAccountFindsOwner ==
  \A a \in AccountIds :
    LET v == SearchIdentityResponse("accountId", a)
    IN /\ v.http = 200
       /\ v.count = 1
       /\ v.id = objs[RefAt(IdentityKeyForAccount(a))].id

\* C32: every onboard and offboard run that is received ends, answered 202
\* or with an error, whatever the status queries of its poll show and
\* whether they are answered or rejected; on the way a poll makes at most
\* `attempts` queries and a run posts one access request per item.
C32_EveryRunEnds ==
  /\ [](\A k \in DOMAIN flows :
          /\ flows[k].queries <= flows[k].attempts
          /\ Len(flows[k].grants) = Len(flows[k].items)
          /\ Len(flows[k].items) <= MaxItems)
  /\ \A k \in 1..MaxFlows :
       (k \in DOMAIN flows) ~>
         (/\ k \in DOMAIN flows
          /\ flows[k].pc = "done"
          /\ flows[k].http \in {202, 400, 500})

\* C32 witness: an offboard run for an id nobody has, whose task never
\* completes, has ended after five queries of which some were rejected.
C32_Witness ==
  \E k \in DOMAIN flows :
    /\ flows[k].kind = "offboard" /\ flows[k].identityId = UnknownId
    /\ flows[k].queries = attempts
    /\ flows[k].rejected \in 1..(attempts - 1)
    /\ flows[k].pc = "done"

\* no caller but request k has queried the task of request k while k polled
NoOtherQueries(k) ==
  /\ flows[k].others = 0
  /\ \A j \in DOMAIN flows \ {k} :
       flows[j].taskId = flows[k].taskId => flows[j].queries = 0

\* C34: the poll of the Task a createAccount or setLifecycleState call has
\* just returned resolves with COMPLETED when its budget is at least 2,
\* after at most 2 queries, and after exactly 2 when no other caller has
\* queried that task; with a budget of 1 and no other query it rejects
\* with the timeout error.  Stated on the step that ends the poll.
C34_PollOfFreshTask ==
  [][\A k \in DOMAIN flows :
       (flows[k].pc = "poll" /\ flows'[k].pc # "poll") =>
         /\ flows[k].attempts >= 2 =>
              /\ flows'[k].last = "COMPLETED"
              /\ flows'[k].queries <= 2
              /\ NoOtherQueries(k) => flows'[k].queries = 2
         /\ (flows[k].attempts = 1 /\ NoOtherQueries(k)) =>
              TimedOut(flows'[k])]_vars

\* C33: all the getAccessToken calls that have returned have returned the
\* same token, also when several calls were made before any had returned.
C33_OneToken ==
  \A c, d \in DOMAIN tokenCalls :
    (tokenCalls[c].returned /\ tokenCalls[d].returned) =>
      tokenCalls[c].token = tokenCalls[d].token

\* the successful setLifecycleState calls made on the Identity of object r
LifecycleCalls(r) ==
  {i \in DOMAIN issued :
     /\ issued[i].op = "setLifecycleState"
     /\ findIdentityById(issued[i].identityId) = r}

\* C35: in every state, an Identity whose lifecycle state is 'terminated'
\* has no enabled account.
C35_TerminatedHasNoEnabledAccount ==
  \A r \in IdentityRefs :
    objs[r].lifecycleState = "terminated" =>
      \A j \in DOMAIN objs[r].accounts : objs[r].accounts[j].status # "enabled"

\* C35 witness: the Identity with two accounts is terminated, one of its
\* accounts was disabled by the termination, and the manager's is enabled.
C35_Witness ==
  /\ objs[2].lifecycleState = "terminated"
  /\ Len(objs[2].accounts) = 2
  /\ LifecycleCalls(2) # {}
  /\ \A i \in DOMAIN issued : issued[i].op # "disableAccount"
  /\ objs[1].accounts[1].status = "enabled"

\* C36: no step takes the status of an account from disabled to enabled:
\* an account that is disabled is there, disabled, after every step,
\* setLifecycleState back to 'active' included.
C36_DisabledStaysDisabled ==
  [][\A r \in IdentityRefs : \A j \in DOMAIN objs[r].accounts :
       objs[r].accounts[j].status = "disabled" =>
         /\ r \in IdentityRefs'
         /\ j \in DOMAIN objs'[r].accounts
         /\ objs'[r].accounts[j].id = objs[r].accounts[j].id
         /\ objs'[r].accounts[j].status = "disabled"]_vars

\* C36 witness: the Identity with two accounts was terminated and then set
\* back to active; it is active and both accounts are disabled.
C36_Witness ==
  /\ \E i, j \in LifecycleCalls(2) :
       /\ i < j
       /\ issued[i].newLifecycleState = "terminated"
       /\ issued[j].newLifecycleState = "active"
  /\ \A i \in DOMAIN issued : issued[i].op # "disableAccount"
  /\ objs[2].lifecycleState = "active"
  /\ \A j \in DOMAIN objs[2].accounts : objs[2].accounts[j].status = "disabled"

\* object o with the status of its account accountId left out of account
OtherThanStatusOf(o, accountId) ==
  IF ~HasAccounts(o) THEN o
  ELSE [o EXCEPT !.accounts =
          [j \in DOMAIN o.accounts |->
             IF o.accounts[j].id = accountId
             THEN [o.accounts[j] EXCEPT !.status = "any"] ELSE o.accounts[j]]]

\* object o with its lifecycle state left out of account, and the status of
\* its accounts too when the new state is 'terminated'
OtherThanLifecycleOf(o, newLifecycleState) ==
  LET p == [o EXCEPT !.lifecycleState = "any"]
  IN IF newLifecycleState = "terminated" /\ HasAccounts(o)
     THEN [p EXCEPT !.accounts =
             [j \in DOMAIN o.accounts |-> [o.accounts[j] EXCEPT !.status = "any"]]]
     ELSE p

\* C37: a disableAccount(a) call that succeeds changes nothing but the
\* status of a, a setLifecycleState(i, s) call that succeeds nothing but the
\* lifecycle state of i (and the status of i's accounts when s is
\* 'terminated'); each adds one Task, QUEUED, under an id the ledger did not
\* hold, and leaves every other Identity, Account and Task as it was.
C37_OnlyTheTargetChanges ==
  [][(Len(issued') = Len(issued) + 1
       /\ issued'[Len(issued')].op \in {"disableAccount", "setLifecycleState"}) =>
      LET e == issued'[Len(issued')]
          target == IF e.op = "disableAccount"
                    THEN RefAt(IdentityKeyForAccount(e.accountId))
                    ELSE findIdentityById(e.identityId)
      IN /\ e.taskId \notin LedgerIds
         /\ LedgerIds' = LedgerIds \cup {e.taskId}
         /\ \E id \in LedgerIds' : id = e.taskId /\ (TaskStatus(id))' = "QUEUED"
         /\ \A id \in DOMAIN simulatedAccountsStore :
              simulatedAccountsStore'[id] = simulatedAccountsStore[id]
         /\ \A r \in DOMAIN objs \ {target} : objs'[r] = objs[r]
         /\ target \in IdentityRefs
         /\ IF e.op = "disableAccount"
            THEN OtherThanStatusOf(objs'[target], e.accountId) =
                 OtherThanStatusOf(objs[target], e.accountId)
            ELSE OtherThanLifecycleOf(objs'[target], e.newLifecycleState) =
                 OtherThanLifecycleOf(objs[target], e.newLifecycleState)]_vars

\* the status of Task record id left out of account
AccountTasksOtherThanStatusOf(id) ==
  [k \in DOMAIN simulatedAccountsStore |->
     IF k = id THEN [simulatedAccountsStore[k] EXCEPT !.status = "any"]
     ELSE simulatedAccountsStore[k]]

ObjectsOtherThanStatusOf(id) ==
  [r \in DOMAIN objs |->
     IF r = StoreRef(id) /\ objs[r].kind = "task"
     THEN [objs[r] EXCEPT !.status = "any"] ELSE objs[r]]

C39_DisableAgainAddsATask ==
  [][(/\ Len(issued') = Len(issued) + 1
      /\ issued'[Len(issued')].op = "disableAccount"
      /\ \E a \in AccountIds :
           a = issued'[Len(issued')].accountId /\ OwnerStatus(a) = "disabled") =>
      LET e == issued'[Len(issued')]
      IN /\ DisableAccountResponse(e.accountId, now').http = 202
         /\ objs' = objs
         /\ simulatedIdentitiesStore' = simulatedIdentitiesStore
         /\ e.taskId \notin LedgerIds
         /\ LedgerIds' = LedgerIds \cup {e.taskId}
         /\ \E id \in LedgerIds' : id = e.taskId /\ (TaskStatus(id))' = "QUEUED"]_vars

====
